---- MODULE Spec2Model ----
(***************************************************************************)
(* A model of aerso's air-state derivation (AeroBody::get_airstate) and    *)
(* of the effector composition layer (AffectedBody::step, AeroBody::step). *)
(*                                                                         *)
(* Numbers.  Vector components are integers.  The reals the code computes  *)
(* from them are represented exactly:                                      *)
(*   - sqrt(n)       is the record [sq |-> n]  (the non-negative root);    *)
(*   - v / sqrt(n)   is the record [num |-> v, densq |-> n];               *)
(*   - an angle t in (-pi, pi] is the record                               *)
(*       [ss |-> sign(sin t), sc |-> sign(cos t), s2 |-> a, c2 |-> b]      *)
(*     with a : b the reduced ratio sin(t)^2 : cos(t)^2;                   *)
(*   - a density is an integer count of 1e-3 kg/m^3, a dynamic pressure    *)
(*     an integer count of 1e-4 Pa;                                        *)
(*   - NaN is the record [nan |-> TRUE].                                   *)
(* Signed zeros and non-finite inputs of IEEE arithmetic are not modelled. *)
(***************************************************************************)
EXTENDS Integers, Sequences, FiniteSets, TLC

\* ------------------------------------------------------------- bounds
\* The largest effector collection.
MaxEff == 2
\* The largest timestep, in ticks.
MaxDt == 2
\* The cap on the accumulated simulation time, in ticks.
MaxTime == 3
\* The control input ranges over 0..MaxInput.
MaxInput == 1

\* ------------------------------------------------------ vector algebra
Zero3 == <<0, 0, 0>>

Add3(a, b) == <<a[1] + b[1], a[2] + b[2], a[3] + b[3]>>

Sub3(a, b) == <<a[1] - b[1], a[2] - b[2], a[3] - b[3]>>

\* Matrix (a tuple of three rows) times column vector.
MatVec(m, x) == << m[1][1] * x[1] + m[1][2] * x[2] + m[1][3] * x[3],
                   m[2][1] * x[1] + m[2][2] * x[2] + m[2][3] * x[3],
                   m[3][1] * x[1] + m[3][2] * x[2] + m[3][3] * x[3] >>

\* ----------------------------------------------------- scalar functions
NaN == [nan |-> TRUE]

IsNaN(r) == "nan" \in DOMAIN r

Sgn(x) == IF x > 0 THEN 1 ELSE IF x < 0 THEN -1 ELSE 0

RECURSIVE GCD(_, _)
GCD(a, b) == IF b = 0 THEN a ELSE GCD(b, a % b)

\* powi(x, 2)
Powi2(x) == x * x

\* sqrt(n): the non-negative root of n, NaN below zero.
Sqrt(n) == IF n < 0 THEN NaN ELSE [sq |-> n]

\* powi(sqrt(n), 2)
SqrtPowi2(r) == r.sq

\* airspeed != T::zero()
NonZero(r) == r.sq # 0

\* v / airspeed: 0/0 is NaN, x/0 an infinity (whose asin is NaN as well).
Div(v, r) == IF r.sq = 0 THEN NaN ELSE [num |-> v, densq |-> r.sq]

\* The angle whose sine has sign ss and whose cosine has sign sc, with
\* sin^2 : cos^2 = a : b (not both zero).
Angle(ss, sc, a, b) ==
    LET g == GCD(a, b)
    IN  [ss |-> ss, sc |-> sc, s2 |-> a \div g, c2 |-> b \div g]

AngleZero == Angle(0, 1, 0, 1)

\* atan2(y, x), in (-pi, pi]; atan2(0, 0) = 0.
Atan2(y, x) ==
    IF y = 0 /\ x = 0 THEN AngleZero
    ELSE Angle(Sgn(y), Sgn(x), Powi2(y), Powi2(x))

\* asin(r), in [-pi/2, pi/2]; NaN outside [-1, 1].
Asin(r) ==
    IF IsNaN(r) THEN NaN
    ELSE IF Powi2(r.num) > r.densq THEN NaN
    ELSE Angle(Sgn(r.num), Sgn(r.densq - Powi2(r.num)),
               Powi2(r.num), r.densq - Powi2(r.num))

\* ------------------------------------------------------- the rigid body
\* The direction-cosine matrix (world to body) of an attitude: level, yawed
\* 90 degrees, pitched up 90 degrees.
get_dcm(statevector) ==
    CASE statevector.attitude = "identity" ->
            << <<1, 0, 0>>, <<0, 1, 0>>, <<0, 0, 1>> >>
      [] statevector.attitude = "yaw90" ->
            << <<0, 1, 0>>, <<-1, 0, 0>>, <<0, 0, 1>> >>
      [] statevector.attitude = "pitch90" ->
            << <<0, 0, -1>>, <<0, 1, 0>>, <<1, 0, 0>> >>

\* The body of the tests' fixture: at rest at the origin, level.
body_fixture ==
    [position |-> Zero3, velocity |-> Zero3, attitude |-> "identity",
     rates |-> Zero3]

\* The state vectors a caller sets and the integrator produces.
StateVectors ==
    { body_fixture,
      [position |-> <<0, 0, 1>>, velocity |-> <<1, 0, 0>>,
       attitude |-> "identity", rates |-> Zero3],
      [position |-> <<1, 0, 0>>, velocity |-> <<1, 1, 0>>,
       attitude |-> "yaw90", rates |-> <<0, 0, 1>>],
      [position |-> <<0, 1, -1>>, velocity |-> <<0, -1, 1>>,
       attitude |-> "pitch90", rates |-> <<1, 0, 0>>] }

Body_position(b) == b.position

Body_velocity(b) == b.velocity

Body_statevector(b) == b

Body_rates(b) == b.rates

\* Body::set_state replaces the whole state vector.
Body_set_state(b, new_state) == new_state

\* Body::step: the integrator is not part of this layer; any state vector
\* may follow.
Body_step(b, forces, torques, delta_t) == StateVectors

\* ---------------------------------------------------- the environment
\* ConstantWind::new
ConstantWind_new(wind) == [wind |-> wind]

\* ConstantWind::get_wind ignores the position.
get_wind(wind_model, position) == wind_model.wind

\* ConstantWind::step does nothing.
WindModel_step(wind_model, delta_t) == wind_model

\* The winds of the tests: calm, headwind, high wind, tailwind, updraft,
\* crosswind, sideslip; and one wind with three components.
WindSamples ==
    { <<0, 0, 0>>, <<-1, 0, 0>>, <<-20, 0, 0>>, <<1, 0, 0>>, <<0, 0, -1>>,
      <<0, -1, 0>>, <<-1, 1, 0>>, <<1, -1, 1>> }

\* StandardDensity::ISA_STANDARD_DENSITY, in 1e-3 kg/m^3.
ISA_STANDARD_DENSITY == 1225

StandardDensity == [density |-> ISA_STANDARD_DENSITY]

\* The density models: the standard one, and two a caller may supply
\* (vacuum, and a non-physical negative reading).
DensityModels ==
    { StandardDensity, [density |-> 0], [density |-> -ISA_STANDARD_DENSITY] }

\* DensityModel::get_density; every model here ignores the position.
get_density(density_model, position) == density_model.density

\* 0.5 * density * x, with the density in 1e-3 and the result in 1e-4 units.
HalfTimes(density, x) == 5 * density * x

\* ------------------------------------------------------------ AeroBody
\* AeroBody::with_density_model
AeroBody_new(b, wind_model, density_model) ==
    [body |-> b, wind_model |-> wind_model, density_model |-> density_model]

\* Mutant: the subtraction the other way round (wind minus velocity).
current_body_wind_reversed(ab) ==
    Sub3(MatVec(get_dcm(ab.body), ab.wind_model.wind), ab.body.velocity)

\* velocity - DCM * wind: the wind as the body experiences it.
current_body_wind(ab) ==
    Sub3(Body_velocity(ab.body),
         MatVec(get_dcm(Body_statevector(ab.body)),
                get_wind(ab.wind_model, Body_position(ab.body))))

\* Mutant: the lateral component left out of the norm.
airspeed_of_planar(u, v, w) == Sqrt(Powi2(u) + Powi2(w))

\* sqrt(u^2 + v^2 + w^2)
airspeed_of(u, v, w) == Sqrt(Powi2(u) + Powi2(v) + Powi2(w))

\* Mutant: no branch for the zero airspeed.
beta_of_unguarded(v, airspeed) == Asin(Div(v, airspeed))

\* The sideslip angle: the zero-airspeed case has a branch of its own.
beta_of(v, airspeed) ==
    IF NonZero(airspeed) THEN Asin(Div(v, airspeed)) ELSE AngleZero

get_airstate(ab) ==
    LET bw       == current_body_wind(ab)
        u        == bw[1]
        v        == bw[2]
        w        == bw[3]
        airspeed == airspeed_of(u, v, w)
        alpha    == Atan2(w, u)
        beta     == beta_of(v, airspeed)
        q        == HalfTimes(get_density(ab.density_model,
                                          Body_position(ab.body)),
                              SqrtPowi2(airspeed))
    IN  [alpha |-> alpha, beta |-> beta, airspeed |-> airspeed, q |-> q]

\* Mutant: the wind model is not advanced.
AeroBody_step_no_wind(forces, torques, delta_t) ==
    << [ev |-> "body_step", forces |-> forces, torques |-> torques,
        delta_t |-> delta_t] >>

\* AeroBody::step, as the calls it makes, in order.
AeroBody_step(forces, torques, delta_t) ==
    << [ev |-> "wind_step", delta_t |-> delta_t],
       [ev |-> "body_step", forces |-> forces, torques |-> torques,
        delta_t |-> delta_t] >>

\* ------------------------------------------------------------ effectors
\* Two effectors of different strength.  Each is a pure function of the
\* air state, the body rates and the control input.
Effectors == { [k |-> 1], [k |-> 3] }

get_effect(e, airstate, rates, inputstate) ==
    [force  |-> << -(e.k * SqrtPowi2(airstate.airspeed)),
                   e.k * inputstate,
                   rates[3] + airstate.alpha.ss >>,
     torque |-> << rates[1],
                   e.k + inputstate,
                   e.k * Sgn(airstate.q) >>]

\* Mutant: the collection is walked backwards.
ft_pairs_reversed(effectors, airstate, rates, inputstate) ==
    [i \in 1..Len(effectors) |->
        [ev |-> "get_effect", idx |-> i,
         effector |-> effectors[Len(effectors) + 1 - i],
         airstate |-> airstate, rates |-> rates, inputstate |-> inputstate,
         ft |-> get_effect(effectors[Len(effectors) + 1 - i], airstate, rates,
                           inputstate)]]

\* Mutant: the first effector is skipped.
ft_pairs_skip_first(effectors, airstate, rates, inputstate) ==
    [i \in 1..(Len(effectors) - 1) |->
        [ev |-> "get_effect", idx |-> i + 1, effector |-> effectors[i + 1],
         airstate |-> airstate, rates |-> rates, inputstate |-> inputstate,
         ft |-> get_effect(effectors[i + 1], airstate, rates, inputstate)]]

\* self.effectors.iter().map(|e| e.get_effect(airstate,rates,inputstate)):
\* the i-th element is the i-th effector's call and its result.
ft_pairs(effectors, airstate, rates, inputstate) ==
    [i \in 1..Len(effectors) |->
        [ev |-> "get_effect", idx |-> i, effector |-> effectors[i],
         airstate |-> airstate, rates |-> rates, inputstate |-> inputstate,
         ft |-> get_effect(effectors[i], airstate, rates, inputstate)]]

\* Mutant: the torques pushed where the forces belong.
forces_of_torques(pairs) == [i \in 1..Len(pairs) |-> pairs[i].ft.torque]

\* for (f,t) in ft_pairs { forces.push(f); torques.push(t); }
forces_of(pairs) == [i \in 1..Len(pairs) |-> pairs[i].ft.force]

torques_of(pairs) == [i \in 1..Len(pairs) |-> pairs[i].ft.torque]

\* Mutant: the air state and the rates are read again for every effector.
AffectedBody_step_requery(ab, effectors, delta_t, inputstate) ==
    LET one(i) ==
            LET airstate == get_airstate(ab)
                rates    == ab.body.rates
            IN  << [ev |-> "get_airstate", airstate |-> airstate],
                   [ev |-> "rates", rates |-> rates],
                   [ev |-> "get_effect", idx |-> i, effector |-> effectors[i],
                    airstate |-> airstate, rates |-> rates,
                    inputstate |-> inputstate,
                    ft |-> get_effect(effectors[i], airstate, rates,
                                      inputstate)] >>
        all[i \in 0..Len(effectors)] ==
            IF i = 0 THEN <<>> ELSE all[i - 1] \o one(i)
        pairs == SelectSeq(all[Len(effectors)], LAMBDA c : c.ev = "get_effect")
    IN  all[Len(effectors)]
        \o << [ev |-> "wind_step", delta_t |-> delta_t],
               [ev |-> "body_step",
                forces  |-> [i \in 1..Len(pairs) |-> pairs[i].ft.force],
                torques |-> [i \in 1..Len(pairs) |-> pairs[i].ft.torque],
                delta_t |-> delta_t] >>

\* Mutant: nothing is stepped when there are no effectors.
AffectedBody_step_skip_empty(ab, effectors, delta_t, inputstate) ==
    LET airstate == get_airstate(ab)
        rates    == ab.body.rates
    IN  IF effectors = <<>>
        THEN << [ev |-> "get_airstate", airstate |-> airstate],
                [ev |-> "rates", rates |-> rates] >>
        ELSE << [ev |-> "get_airstate", airstate |-> airstate],
                [ev |-> "rates", rates |-> rates] >>
             \o [i \in 1..Len(effectors) |->
                    [ev |-> "get_effect", idx |-> i, effector |-> effectors[i],
                     airstate |-> airstate, rates |-> rates,
                     inputstate |-> inputstate,
                     ft |-> get_effect(effectors[i], airstate, rates,
                                       inputstate)]]
             \o << [ev |-> "wind_step", delta_t |-> delta_t],
                    [ev |-> "body_step",
                     forces  |-> [i \in 1..Len(effectors) |->
                                    get_effect(effectors[i], airstate, rates,
                                               inputstate).force],
                     torques |-> [i \in 1..Len(effectors) |->
                                    get_effect(effectors[i], airstate, rates,
                                               inputstate).torque],
                     delta_t |-> delta_t] >>

\* AffectedBody::step, as the calls it makes, in order.
AffectedBody_step(ab, effectors, delta_t, inputstate) ==
    LET airstate == get_airstate(ab)
        rates    == Body_rates(ab.body)
        pairs    == ft_pairs(effectors, airstate, rates, inputstate)
    IN  << [ev |-> "get_airstate", airstate |-> airstate],
           [ev |-> "rates", rates |-> rates] >>
        \o pairs
        \o AeroBody_step(forces_of(pairs), torques_of(pairs), delta_t)

\* The net load Body::step applies: the pointwise sum of a list of vectors.
RECURSIVE Sum3(_)
Sum3(vs) == IF vs = <<>> THEN Zero3 ELSE Add3(Sum3(Tail(vs)), Head(vs))

\* ---------------------------------------------------------------- state
VARIABLES
    body,           \* AeroBody.body: the rigid body's state vector
    wind_model,     \* AeroBody.wind_model
    density_model,  \* AeroBody.density_model
    effectors,      \* AffectedBody.effectors, in insertion order
    op,             \* the operation called last
    args,           \* the arguments it was called with
    ret,            \* what it returned
    calls,          \* the calls it made, in order
    wind_time,      \* the time the wind model has been advanced by
    body_time       \* the time the rigid body has been advanced by

vars == << body, wind_model, density_model, effectors, op, args, ret, calls,
           wind_time, body_time >>

\* The AeroBody the variables hold.
Aero == AeroBody_new(body, wind_model, density_model)

\* The unit value ().
Unit == [unit |-> TRUE]

\* The sequences over S of length at most n.
SeqUpTo(S, n) == UNION { [1..k -> S] : k \in 0..n }

\* The force and torque lists a caller hands to AeroBody::step.
LoadLists ==
    { [forces |-> <<>>, torques |-> <<>>],
      [forces |-> << <<1, 0, 0>> >>, torques |-> <<>>],
      [forces |-> << <<1, 0, 0>>, <<0, 2, 0>> >>,
       torques |-> << <<0, 0, 1>> >>] }

\* Any body, any of the winds, any of the density models, any collection
\* of effectors; nothing has been called yet.
Init ==
    /\ body \in StateVectors
    /\ wind_model \in { ConstantWind_new(w) : w \in WindSamples }
    /\ density_model \in DensityModels
    /\ effectors \in SeqUpTo(Effectors, MaxEff)
    /\ op = "new"
    /\ args = Unit
    /\ ret = Unit
    /\ calls = <<>>
    /\ wind_time = 0
    /\ body_time = 0

\* The events of one kind among a sequence of calls.
Events(cs, kind) == SelectSeq(cs, LAMBDA c : c.ev = kind)

\* The total delta_t of the events of one kind.
RECURSIVE TotalDt(_)
TotalDt(es) == IF es = <<>> THEN 0 ELSE Head(es).delta_t + TotalDt(Tail(es))

\* The effect of a sequence of calls on the state: every wind_step advances
\* the wind model, every body_step the rigid body.
Perform(cs) ==
    LET ws == Events(cs, "wind_step")
        bs == Events(cs, "body_step")
    IN  /\ calls' = cs
        /\ wind_time' = wind_time + TotalDt(ws)
        /\ body_time' = body_time + TotalDt(bs)
        /\ wind_model' = IF ws = <<>> THEN wind_model
                         ELSE WindModel_step(wind_model, Head(ws).delta_t)
        /\ IF bs = <<>> THEN body' = body
           ELSE body' \in Body_step(body, Head(bs).forces, Head(bs).torques,
                                    Head(bs).delta_t)

\* Mutant: the query advances the wind model by one tick.
GetAirstate_advancing ==
    /\ wind_time + 1 <= MaxTime
    /\ op' = "get_airstate"
    /\ args' = Unit
    /\ ret' = get_airstate(Aero)
    /\ calls' = <<>>
    /\ wind_time' = wind_time + 1
    /\ UNCHANGED << body, wind_model, density_model, effectors, body_time >>

\* AeroBody::get_airstate(&self)
GetAirstate ==
    /\ op' = "get_airstate"
    /\ args' = Unit
    /\ ret' = get_airstate(Aero)
    /\ calls' = <<>>
    /\ UNCHANGED << body, wind_model, density_model, effectors,
                    wind_time, body_time >>

\* AeroBody::set_state(&mut self, new_state)
SetState(new_state) ==
    /\ op' = "set_state"
    /\ args' = [new_state |-> new_state]
    /\ ret' = Unit
    /\ calls' = <<>>
    /\ body' = Body_set_state(body, new_state)
    /\ UNCHANGED << wind_model, density_model, effectors,
                    wind_time, body_time >>

\* AeroBody::step(&mut self, forces, torques, delta_t)
AeroStep(forces, torques, delta_t) ==
    /\ wind_time + delta_t <= MaxTime
    /\ body_time + delta_t <= MaxTime
    /\ op' = "aero_step"
    /\ args' = [forces |-> forces, torques |-> torques, delta_t |-> delta_t]
    /\ ret' = Unit
    /\ Perform(AeroBody_step(forces, torques, delta_t))
    /\ UNCHANGED << density_model, effectors >>

\* AffectedBody::step(&mut self, delta_t, inputstate)
AffectedStep(delta_t, inputstate) ==
    /\ wind_time + delta_t <= MaxTime
    /\ body_time + delta_t <= MaxTime
    /\ op' = "affected_step"
    /\ args' = [delta_t |-> delta_t, inputstate |-> inputstate]
    /\ ret' = Unit
    /\ Perform(AffectedBody_step(Aero, effectors, delta_t, inputstate))
    /\ UNCHANGED << density_model, effectors >>

Next ==
    \/ GetAirstate
    \/ \E new_state \in StateVectors : SetState(new_state)
    \/ \E load \in LoadLists, delta_t \in 1..MaxDt :
          AeroStep(load.forces, load.torques, delta_t)
    \/ \E delta_t \in 1..MaxDt, inputstate \in 0..MaxInput :
          AffectedStep(delta_t, inputstate)

Spec == Init /\ [][Next]_vars

\* ===================================================================
\* Properties
\* ===================================================================
\* What the last operation's calls show.
TheAirstate == Head(Events(calls, "get_airstate")).airstate

TheRates == Head(Events(calls, "rates")).rates

TheEffects == Events(calls, "get_effect")

TheWindStep == Head(Events(calls, "wind_step"))

TheBodyStep == Head(Events(calls, "body_step"))

\* An AffectedBody::step has just run and made the calls of a whole step.
Stepped ==
    /\ op = "affected_step"
    /\ Len(Events(calls, "get_airstate")) >= 1
    /\ Len(Events(calls, "rates")) >= 1
    /\ Len(Events(calls, "wind_step")) >= 1
    /\ Len(Events(calls, "body_step")) >= 1

\* What each effector of the collection yields for the air state and rates
\* read by the step and the control input it was given.
EffectOf(i) == get_effect(effectors[i], TheAirstate, TheRates, args.inputstate)

EffectForces == [i \in 1..Len(effectors) |-> EffectOf(i).force]

EffectTorques == [i \in 1..Len(effectors) |-> EffectOf(i).torque]

\* The pointwise sum of what the effectors yield, effector by effector.
RECURSIVE ForceSum(_)
ForceSum(n) == IF n = 0 THEN Zero3 ELSE Add3(ForceSum(n - 1), EffectOf(n).force)

RECURSIVE TorqueSum(_)
TorqueSum(n) ==
    IF n = 0 THEN Zero3 ELSE Add3(TorqueSum(n - 1), EffectOf(n).torque)

\* C1 as stated: AffectedBody.step hands AeroBody.step one aggregate force,
\* the pointwise sum of every effector's force, and one aggregate torque,
\* with the same delta_t.
C1_SingleAggregate ==
    op = "affected_step" =>
        /\ Stepped
        /\ TheBodyStep.forces = << ForceSum(Len(effectors)) >>
        /\ TheBodyStep.torques = << TorqueSum(Len(effectors)) >>
        /\ TheBodyStep.delta_t = args.delta_t

\* C1 as amended: AffectedBody.step does not sum. It hands AeroBody.step the
\* list of the effectors' forces and the list of their torques, one entry per
\* effector, with the same delta_t; the pointwise sum of the handed forces is
\* the pointwise sum of every effector's force, and likewise for the torques.
C1_ListsHandedOn ==
    op = "affected_step" =>
        /\ Stepped
        /\ TheBodyStep.forces = EffectForces
        /\ TheBodyStep.torques = EffectTorques
        /\ TheBodyStep.delta_t = args.delta_t
        /\ TheWindStep.delta_t = args.delta_t
        /\ Sum3(TheBodyStep.forces) = ForceSum(Len(effectors))
        /\ Sum3(TheBodyStep.torques) = TorqueSum(Len(effectors))

C1_Witness ==
    /\ Stepped
    /\ Len(effectors) = 2
    /\ Len(TheBodyStep.forces) = 2
    /\ TheBodyStep.forces[1] # TheBodyStep.forces[2]
    /\ Sum3(TheBodyStep.forces) # Zero3

\* C2: within one AffectedBody.step the air state and the rates are read
\* exactly once, and every effector receives that air state, those rates and
\* the step's control input.
C2_OneSnapshot ==
    op = "affected_step" =>
        /\ Len(Events(calls, "get_airstate")) = 1
        /\ Len(Events(calls, "rates")) = 1
        /\ \A i \in 1..Len(TheEffects) :
              /\ TheEffects[i].airstate = TheAirstate
              /\ TheEffects[i].rates = TheRates
              /\ TheEffects[i].inputstate = args.inputstate

\* Two effectors have been given the same air state, and the step has since
\* changed the body, so that the air state is another one now.
C2_Witness ==
    /\ Stepped
    /\ Len(TheEffects) = 2
    /\ TheEffects[1].airstate = TheEffects[2].airstate
    /\ get_airstate(Aero) # TheAirstate

\* C3: with no effectors, AffectedBody.step hands on no force and no torque,
\* so that the net force and the net torque are zero, and it still advances
\* the wind model and the rigid body by delta_t.
C3_EmptyCollection ==
    [][ (op' = "affected_step" /\ effectors = <<>>) =>
            /\ Len(Events(calls', "wind_step")) = 1
            /\ Len(Events(calls', "body_step")) = 1
            /\ Head(Events(calls', "body_step")).forces = <<>>
            /\ Head(Events(calls', "body_step")).torques = <<>>
            /\ Sum3(Head(Events(calls', "body_step")).forces) = Zero3
            /\ Sum3(Head(Events(calls', "body_step")).torques) = Zero3
            /\ Head(Events(calls', "wind_step")).delta_t = args'.delta_t
            /\ Head(Events(calls', "body_step")).delta_t = args'.delta_t
            /\ wind_time' = wind_time + args'.delta_t
            /\ body_time' = body_time + args'.delta_t ]_vars

C3_Witness ==
    /\ Stepped
    /\ effectors = <<>>
    /\ TheBodyStep.forces = <<>>
    /\ wind_time = MaxTime
    /\ TheAirstate.airspeed # Sqrt(0)

\* C4: every step advances the wind model once and then the rigid body once,
\* by the step's delta_t and with the forces and torques it was given; the
\* wind model and the rigid body have always been advanced by the same time.
C4_TimesAgree ==
    /\ wind_time = body_time
    /\ op \in {"aero_step", "affected_step"} =>
          /\ Len(calls) >= 2
          /\ Len(Events(calls, "wind_step")) = 1
          /\ Len(Events(calls, "body_step")) = 1
          /\ calls[Len(calls) - 1].ev = "wind_step"
          /\ calls[Len(calls)].ev = "body_step"
          /\ TheWindStep.delta_t = args.delta_t
          /\ TheBodyStep.delta_t = args.delta_t
          /\ op = "aero_step" =>
                /\ TheBodyStep.forces = args.forces
                /\ TheBodyStep.torques = args.torques

C4_Witness ==
    /\ op = "aero_step"
    /\ body_time = MaxTime
    /\ wind_time = MaxTime
    /\ TheBodyStep.forces # <<>>

\* C5: get_airstate changes nothing of the AeroBody, and asked again with no
\* step or set_state in between it returns the same air state; only step and
\* set_state change an AeroBody, and set_state only its rigid body.
C5_ReadOnly ==
    [][ /\ op' = "get_airstate" =>
              /\ UNCHANGED << body, wind_model, density_model, effectors,
                              wind_time, body_time >>
              /\ op = "get_airstate" => ret' = ret
        /\ << body, wind_model, density_model, wind_time, body_time >>'
               # << body, wind_model, density_model, wind_time, body_time >>
              => op' \in {"aero_step", "affected_step", "set_state"}
        /\ op' = "set_state" =>
              UNCHANGED << wind_model, density_model, wind_time >> ]_vars

C5_Witness ==
    /\ op = "get_airstate"
    /\ body_time > 0
    /\ ret = get_airstate(Aero)
    /\ ret.airspeed # Sqrt(0)

\* The relative wind of the current state, which is the one get_airstate
\* read when it is the operation called last.
RelWind == Sub3(body.velocity, MatVec(get_dcm(body), wind_model.wind))

NormSq(x) == x[1] * x[1] + x[2] * x[2] + x[3] * x[3]

Pi == Angle(0, -1, 0, 1)

HalfPi == Angle(1, 0, 1, 0)

MinusQuarterPi == Angle(-1, 1, 1, 1)

AtRestLevel == body.velocity = Zero3 /\ body.attitude = "identity"

\* C7: for a body at rest and level in a wind (wx, wy, wz), alpha =
\* atan2(-wz, -wx) and beta = asin(-wy / |w|); a headwind gives alpha 0 and
\* beta 0, a tailwind alpha pi, an updraft alpha pi/2, the crosswind
\* (0,-1,0) beta pi/2 with alpha 0, and (-1,1,0) beta -pi/4 with alpha 0.
C7_WindAngles ==
    (op = "get_airstate" /\ AtRestLevel) =>
        LET wind == wind_model.wind
        IN  /\ ret.alpha = Atan2(-wind[3], -wind[1])
            /\ wind # Zero3 =>
                  ret.beta = Asin(Div(-wind[2], Sqrt(NormSq(wind))))
            /\ wind = <<-1, 0, 0>> =>
                  ret.alpha = AngleZero /\ ret.beta = AngleZero
            /\ wind = <<1, 0, 0>> => ret.alpha = Pi
            /\ wind = <<0, 0, -1>> => ret.alpha = HalfPi
            /\ wind = <<0, -1, 0>> =>
                  ret.beta = HalfPi /\ ret.alpha = AngleZero
            /\ wind = <<-1, 1, 0>> =>
                  ret.beta = MinusQuarterPi /\ ret.alpha = AngleZero

C7_Witness ==
    /\ op = "get_airstate"
    /\ AtRestLevel
    /\ wind_model.wind = <<-1, 1, 0>>
    /\ ret.beta = MinusQuarterPi
    /\ body_time > 0

\* The two orders of a collection of effectors, and every other.
Reordered(p) == [i \in 1..Len(effectors) |-> effectors[p[i]]]

\* C8: the net force and the net torque of a step are those of every
\* reordering of the collection, for the same air state, rates and control
\* input.
C8_OrderInvariant ==
    Stepped =>
        \A p \in Permutations(1..Len(effectors)) :
            LET pairs == ft_pairs(Reordered(p), TheAirstate, TheRates,
                                  args.inputstate)
            IN  /\ Sum3(forces_of(pairs)) = Sum3(TheBodyStep.forces)
                /\ Sum3(torques_of(pairs)) = Sum3(TheBodyStep.torques)

C8_Witness ==
    /\ Stepped
    /\ Len(effectors) = 2
    /\ effectors[1] # effectors[2]
    /\ TheBodyStep.forces[1] # TheBodyStep.forces[2]
    /\ TheBodyStep.torques[1] # TheBodyStep.torques[2]

\* C9: a step reads the air state, then the rates, then calls every effector
\* once in collection order, then advances the wind model, then the body;
\* the i-th force and torque handed on are the i-th effector's, there are as
\* many as effectors, and the collection is the one the step started with.
C9_CallOrder ==
    op = "affected_step" =>
        LET n == Len(effectors)
        IN  /\ Len(calls) = n + 4
            /\ calls[1].ev = "get_airstate"
            /\ calls[2].ev = "rates"
            /\ \A i \in 1..n :
                  /\ calls[2 + i].ev = "get_effect"
                  /\ calls[2 + i].idx = i
                  /\ calls[2 + i].effector = effectors[i]
                  /\ calls[2 + i].ft = EffectOf(i)
            /\ calls[n + 3].ev = "wind_step"
            /\ calls[n + 4].ev = "body_step"
            /\ Len(calls[n + 4].forces) = n
            /\ Len(calls[n + 4].torques) = n
            /\ \A i \in 1..n :
                  /\ calls[n + 4].forces[i] = calls[2 + i].ft.force
                  /\ calls[n + 4].torques[i] = calls[2 + i].ft.torque

C9_Witness ==
    /\ Stepped
    /\ Len(effectors) = 2
    /\ effectors[1] # effectors[2]
    /\ Len(calls) = 6
    /\ calls[3].ft # calls[4].ft

====
